---------------------------- MODULE Spec2Model ----------------------------
(***************************************************************************)
(* Model of movies/omdb_integration.py (search_and_save,                   *)
(* fill_movie_details and their helpers) and of omdb/client.py.            *)
(*                                                                         *)
(* A Python value is a one-field record [<type> |-> <value>]; a            *)
(* Python string is a sequence of one-character strings, so that           *)
(* lower(), re.sub, isdigit(), re.match, split and strip are computed      *)
(* character by character.                                                 *)
(***************************************************************************)
EXTENDS Integers, Sequences, FiniteSets, TLC

VARIABLES
    clock,        \* django.utils.timezone.now(), in ticks of 12 hours
    settings,     \* django.conf.settings (fixed for the process)
    searchTerms,  \* SearchTerm table: set of [term, last_search]
    movies,       \* Movie table: set of Movie rows
    genres,       \* Genre table: set of genre names
    inp,          \* the call in flight: operation, arguments, upstream behaviour
    out           \* what the last call did: outcome, upstream calls, locals

vars == <<clock, settings, searchTerms, movies, genres, inp, out>>

----------------------------------------------------------------------------
(* Python values *)

PyNone == [none |-> TRUE]
PyStr(s) == [str |-> s]
PyInt(n) == [int |-> n]
PyList(l) == [list |-> l]
PyDict(d) == [dict |-> d]
PyObj(a) == [obj |-> a]
PyOther(r) == [other |-> r]   \* a value of any other type; r is its str()

EmptyDict == PyDict(<<>>)

\* isinstance(x, <type>)
Is(x, type) == DOMAIN x = {type}

\* bool(x)
Truthy(x) ==
    CASE Is(x, "none") -> FALSE
      [] Is(x, "str") -> x.str # <<>>
      [] Is(x, "int") -> x.int # 0
      [] Is(x, "list") -> x.list # <<>>
      [] Is(x, "dict") -> DOMAIN x.dict # {}
      [] OTHER -> TRUE

\* a or b
PyOr(a, b) == IF Truthy(a) THEN a ELSE b

\* dict.get(k)
DictGet(d, k) == IF k \in DOMAIN d.dict THEN d.dict[k] ELSE PyNone

----------------------------------------------------------------------------
(* Strings *)

IsSpace(c) == c \in {" ", "\t"}
IsDigit(c) == c \in {"0", "1", "2", "3", "4", "5", "6", "7", "8", "9"}

DigitVal(c) ==
    CASE c = "0" -> 0 [] c = "1" -> 1 [] c = "2" -> 2 [] c = "3" -> 3
      [] c = "4" -> 4 [] c = "5" -> 5 [] c = "6" -> 6 [] c = "7" -> 7
      [] c = "8" -> 8 [] c = "9" -> 9

\* str.lower() on one character
LowerChar(c) ==
    CASE c = "M" -> "m" [] c = "X" -> "x" [] c = "Z" -> "z" [] OTHER -> c

Lower(s) == [i \in 1..Len(s) |-> LowerChar(s[i])]

RECURSIVE DropSpaces(_)
DropSpaces(s) ==
    IF s # <<>> /\ IsSpace(Head(s)) THEN DropSpaces(Tail(s)) ELSE s

\* re.sub(r"\s+", " ", s)
RECURSIVE CollapseWs(_)
CollapseWs(s) ==
    IF s = <<>> THEN <<>>
    ELSE IF IsSpace(Head(s)) THEN <<" ">> \o CollapseWs(DropSpaces(Tail(s)))
    ELSE <<Head(s)>> \o CollapseWs(Tail(s))

\* str.isdigit()
AllDigits(s) == s # <<>> /\ \A i \in 1..Len(s) : IsDigit(s[i])

\* int(s) for a string of digits
RECURSIVE ParseInt(_)
ParseInt(s) ==
    IF s = <<>> THEN 0
    ELSE ParseInt(SubSeq(s, 1, Len(s) - 1)) * 10 + DigitVal(s[Len(s)])

\* the leading run of digits of s
RECURSIVE DigitRun(_)
DigitRun(s) ==
    IF s # <<>> /\ IsDigit(Head(s)) THEN <<Head(s)>> \o DigitRun(Tail(s)) ELSE <<>>

RECURSIVE DropNonDigits(_)
DropNonDigits(s) ==
    IF s # <<>> /\ ~IsDigit(Head(s)) THEN DropNonDigits(Tail(s)) ELSE s

RECURSIVE RStrip(_)
RStrip(s) ==
    IF s # <<>> /\ IsSpace(s[Len(s)]) THEN RStrip(SubSeq(s, 1, Len(s) - 1)) ELSE s

\* str.strip()
Strip(s) == RStrip(DropSpaces(s))

\* str.split(","): the pieces between commas, as a sequence of strings
RECURSIVE SplitComma(_, _)
SplitComma(s, cur) ==
    IF s = <<>> THEN <<cur>>
    ELSE IF Head(s) = "," THEN <<cur>> \o SplitComma(Tail(s), <<>>)
    ELSE SplitComma(Tail(s), Append(cur, Head(s)))

\* str(x)
StrOf(x) ==
    CASE Is(x, "str") -> x.str
      [] Is(x, "other") -> x.other
      [] Is(x, "none") -> <<"N", "o", "n", "e">>
      [] OTHER -> <<"?">>

----------------------------------------------------------------------------
(* Results of calls that may raise *)

Ok(x) == [exc |-> "none", v |-> x]
Raise(e) == [exc |-> e, v |-> PyNone]   \* e: "TypeError" or "Error" (any other)

----------------------------------------------------------------------------
(* Attribute-bearing objects: v maps each attribute the object has to      *)
(* [k |-> "value" | "call" | "raise", v |-> value]; "call" is a            *)
(* zero-argument callable returning v, "raise" an accessor that fails      *)
(* with an exception other than AttributeError (OmdbMovie.year on "1999-").*)

Attr(obj, name) ==
    IF name \in DOMAIN obj.obj THEN obj.obj[name] ELSE [k |-> "absent", v |-> PyNone]

\* getattr(obj, name, None), called when callable
_callable_attr(obj, name) ==
    LET a == Attr(obj, name) IN
    IF a.k = "raise" THEN Raise("Error") ELSE Ok(a.v)

\* only `re.match(r"^\d{4}", str(year))`, without the isdigit() branch
NormalizeYear_prefixOnly(year) ==
    IF Is(year, "int") THEN year
    ELSE IF Is(year, "none") THEN PyNone
    ELSE IF Len(StrOf(year)) >= 4 /\ AllDigits(SubSeq(StrOf(year), 1, 4))
    THEN PyInt(ParseInt(SubSeq(StrOf(year), 1, 4)))
    ELSE PyNone

\* year_val of _normalize_detail_obj and of search_and_save
NormalizeYear(year) ==
    IF Is(year, "int") THEN year
    ELSE IF Is(year, "str") /\ AllDigits(year.str) THEN PyInt(ParseInt(year.str))
    ELSE IF Is(year, "none") THEN PyNone
    ELSE LET s == StrOf(year) IN
         IF Len(s) >= 4 /\ AllDigits(SubSeq(s, 1, 4))
         THEN PyInt(ParseInt(SubSeq(s, 1, 4)))
         ELSE PyNone

\* runtime_minutes of _normalize_detail_obj
NormalizeRuntime(runtime_str) ==
    IF Is(runtime_str, "int") THEN runtime_str
    ELSE IF Is(runtime_str, "str")
    THEN LET run == DigitRun(DropNonDigits(runtime_str.str)) IN
         IF run = <<>> THEN PyNone ELSE PyInt(ParseInt(run))
    ELSE PyNone

NonEmpty(s) == s # <<>>

\* genre_list of _normalize_detail_obj
NormalizeGenres(g) ==
    IF Is(g, "str")
    THEN LET parts == SplitComma(g.str, <<>>) IN
         SelectSeq([i \in 1..Len(parts) |-> Strip(parts[i])], NonEmpty)
    ELSE IF Is(g, "list")
    THEN SelectSeq([i \in 1..Len(g.list) |-> Strip(StrOf(g.list[i]))], NonEmpty)
    ELSE <<>>

\* the fields _normalize_detail_obj reads off the payload, before
\* normalization: [exc, title, year, imdb_id, plot, runtime_str, genres]
DetailFields(detail) ==
    IF Is(detail, "dict") THEN
        [exc |-> "none",
         title |-> DictGet(detail, "Title"),
         year |-> DictGet(detail, "Year"),
         imdb_id |-> PyOr(DictGet(detail, "imdbID"),
                          PyOr(DictGet(detail, "imdbId"), DictGet(detail, "imdb_id"))),
         plot |-> DictGet(detail, "Plot"),
         runtime_str |-> PyOr(DictGet(detail, "Runtime"), DictGet(detail, "runtime")),
         genres |-> PyOr(DictGet(detail, "Genre"), DictGet(detail, "genres"))]
    ELSE IF Is(detail, "str") THEN
        [exc |-> "none", title |-> detail, year |-> PyNone, imdb_id |-> PyNone,
         plot |-> PyNone, runtime_str |-> PyNone, genres |-> PyNone]
    ELSE
        LET obj == IF Is(detail, "obj") THEN detail ELSE PyObj(<<>>)
            title == _callable_attr(obj, "title")
            year == _callable_attr(obj, "year")
            id1 == _callable_attr(obj, "imdb_id")
            id2 == IF Truthy(id1.v) THEN id1 ELSE _callable_attr(obj, "imdbID")
            plot == _callable_attr(obj, "plot")
            rt1 == _callable_attr(obj, "runtime")
            rt2 == IF Truthy(rt1.v) THEN rt1 ELSE _callable_attr(obj, "runtime_minutes")
            gen == _callable_attr(obj, "genres")
            raised == \E r \in {title, year, id1, id2, plot, rt1, rt2, gen} :
                          r.exc # "none"
        IN  [exc |-> IF raised THEN "Error" ELSE "none",
             title |-> title.v, year |-> year.v, imdb_id |-> id2.v,
             plot |-> plot.v, runtime_str |-> rt2.v, genres |-> gen.v]

\* the dict {} that _normalize_detail_obj(None) returns, read through .get
NoDetail ==
    [Title |-> PyNone, Year |-> PyNone, imdbID |-> PyNone, Plot |-> PyNone,
     RuntimeMinutes |-> PyNone, Genres |-> <<>>]

\* the dict _normalize_detail_obj builds from the fields f it read
NormalizeFields(f) ==
    IF f.exc # "none" THEN Raise(f.exc)
    ELSE Ok([Title |-> f.title,
             Year |-> NormalizeYear(f.year),
             imdbID |-> f.imdb_id,
             Plot |-> f.plot,
             RuntimeMinutes |-> NormalizeRuntime(f.runtime_str),
             Genres |-> NormalizeGenres(f.genres)])

\* _normalize_detail_obj(detail): Ok(record) or Raise
_normalize_detail_obj(detail) ==
    IF Is(detail, "none") THEN Ok(NoDetail)
    ELSE NormalizeFields(DetailFields(detail))

----------------------------------------------------------------------------
(* The upstream client: a function from the names of the callable          *)
(* attributes it has to what each does under every calling convention      *)
(* the integration uses:                                                   *)
(*   pos        getter(x)                                                  *)
(*   imdbid     getter(imdbid=x)                                           *)
(*   id         getter(id=x)                                               *)
(*   title      getter(title=x)                                            *)
(*   title_year getter(title=x, year=y)                                    *)
(* each Ok(payload), Raise("TypeError") or Raise("Error").                 *)

\* callable(getattr(omdb_client, name, None)): the attribute is there and is
\* a method, not a plain value
HasMethod(omdb_client, name) ==
    name \in DOMAIN omdb_client /\ "pos" \in DOMAIN omdb_client[name]

ByIdNames == <<"get_by_imdb_id", "by_id", "get_movie", "movie", "id", "lookup", "get">>

\* one attempted call of a candidate: getter(x), getter(imdbid=x) or
\* getter(id=x), and how it ended
Attempt(name, conv, res) == [name |-> name, conv |-> conv, exc |-> res.exc]

Succeeded_nonNull(res) == res.exc = "none" /\ Truthy(res.v)

\* lines 26, 29, 32: `return getter(...)` returns whatever a call that does
\* not raise gives
Succeeded(res) == res.exc = "none"

\* the candidate loop of _fetch_by_imdb_id from the i-th name on:
\* [exc, v, trace, done]; trace = the calls made so far, in order;
\* done = a call returned or an exception escaped
RECURSIVE ProbeById(_, _, _)
ProbeById(omdb_client, i, trace) ==
    IF i > Len(ByIdNames)
    THEN [exc |-> "none", v |-> PyNone, trace |-> trace, done |-> FALSE]
    ELSE IF ~HasMethod(omdb_client, ByIdNames[i])
    THEN ProbeById(omdb_client, i + 1, trace)
    ELSE LET name == ByIdNames[i]
             getter == omdb_client[name]
             t1 == Append(trace, Attempt(name, "pos", getter.pos))
             t2 == Append(t1, Attempt(name, "imdbid", getter.imdbid))
             t3 == Append(t2, Attempt(name, "id", getter.id))
         IN
         IF Succeeded(getter.pos)
         THEN [exc |-> "none", v |-> getter.pos.v, trace |-> t1, done |-> TRUE]
         ELSE IF getter.pos.exc # "TypeError"
         THEN ProbeById(omdb_client, i + 1, t1)
         ELSE IF Succeeded(getter.imdbid)
         THEN [exc |-> "none", v |-> getter.imdbid.v, trace |-> t2, done |-> TRUE]
         ELSE IF getter.imdbid.exc # "TypeError"
         \* raised inside the handler of the outer try: no except clause covers it
         THEN [exc |-> getter.imdbid.exc, v |-> PyNone, trace |-> t2, done |-> TRUE]
         ELSE IF Succeeded(getter.id)
         THEN [exc |-> "none", v |-> getter.id.v, trace |-> t3, done |-> TRUE]
         ELSE ProbeById(omdb_client, i + 1, t3)

\* only the first of the three names
ApiKey_first(conf) == conf.OMDB_API_KEY

\* api_key of the HTTP fallback
ApiKey(conf) == PyOr(conf.OMDB_API_KEY, PyOr(conf.OMDB_APIKEY, conf.OMDB_KEY))

TrueStr == PyStr(<<"T", "r", "u", "e">>)

\* the HTTP fallback of _fetch_by_imdb_id; http is what the request does:
\* [kind |-> "error"]   requests.get raises (transport failure, timeout)
\* [kind |-> "status"]  a response that is not 2xx: raise_for_status raises
\* [kind |-> "notjson"] a 2xx response whose body resp.json() cannot parse
\* [kind |-> "ok", data |-> parsed JSON] a 2xx response with a JSON body
HttpFallback(conf, http, calls) ==
    IF ~Truthy(ApiKey(conf))
    THEN [exc |-> "none", v |-> PyNone, calls |-> calls, http |-> 0]
    ELSE IF http.kind = "ok" /\ Is(http.data, "dict")
            /\ DictGet(http.data, "Response") = TrueStr
    THEN [exc |-> "none", v |-> http.data, calls |-> calls, http |-> 1]
    ELSE [exc |-> "none", v |-> PyNone, calls |-> calls, http |-> 1]

\* _fetch_by_imdb_id after the candidate loop ended as p
FetchAfterProbe(p, conf, http) ==
    IF p.done
    THEN [exc |-> p.exc, v |-> p.v, calls |-> Len(p.trace), http |-> 0]
    ELSE HttpFallback(conf, http, Len(p.trace))

\* _fetch_by_imdb_id: [exc, v, calls (client calls made), http (requests made)]
_fetch_by_imdb_id(omdb_client, conf, http) ==
    FetchAfterProbe(ProbeById(omdb_client, 1, <<>>), conf, http)

----------------------------------------------------------------------------
(* Rows *)

\* the fields of a new Movie row that the caller does not give (movies.models)
MovieDefaults ==
    [plot |-> PyNone, runtime_minutes |-> PyNone, genres |-> {}, is_full_record |-> FALSE]

\* a Movie row as Movie.objects.get_or_create(imdb_id=..., defaults=...) makes it
NewMovie(imdb_id, title, year_val) ==
    [imdb_id |-> imdb_id, title |-> title, year |-> year_val,
     plot |-> MovieDefaults.plot, runtime_minutes |-> MovieDefaults.runtime_minutes,
     genres |-> MovieDefaults.genres, is_full_record |-> MovieDefaults.is_full_record]

MovieOf(table, imdb_id) == CHOOSE m \in table : m.imdb_id = imdb_id

SeqToSet(q) == {q[i] : i \in 1..Len(q)}

\* what get_or_create_genres adds to the Genre table
get_or_create_genres(genre_names) == SeqToSet(genre_names)

\* the row fill_movie_details saves for `movie` from the normalized details
ApplyDetails(movie, details) ==
    [imdb_id |-> movie.imdb_id,
     title |-> PyOr(details.Title, movie.title),
     year |-> PyOr(details.Year, movie.year),
     plot |-> details.Plot,
     runtime_minutes |-> details.RuntimeMinutes,
     genres |-> get_or_create_genres(details.Genres),
     is_full_record |-> TRUE]

Idle == [op |-> "idle"]

\* what a call did: how it ended ("returned" or "raised"), how many upstream
\* calls it made (client methods and HTTP requests), and its locals
Outcome(op, arg, outcome, upstream) ==
    [op |-> op, arg |-> arg, outcome |-> outcome, upstream |-> upstream,
     details_raw |-> PyNone,  \* fill_movie_details: what _fetch_by_imdb_id returned
     inner_key |-> "",        \* search_and_save: the envelope key `inner` was read from
     saved |-> {}]            \* search_and_save: the imdb_ids given to get_or_create

AlreadyFull_never(movie) == FALSE

\* line 154
AlreadyFull(movie) == movie.is_full_record

NoDetails_onlyNone(details_raw) == Is(details_raw, "none")

\* line 161
NoDetails(details_raw) == ~Truthy(details_raw)

\* fill_movie_details(movie), movie being the row inp.imdb_id names
fill_movie_details ==
    /\ inp.op = "fill_movie_details"
    /\ inp' = Idle
    /\ LET movie == MovieOf(movies, inp.imdb_id)
           f == _fetch_by_imdb_id(inp.client, settings, inp.http)
           n == _normalize_detail_obj(f.v)
           done(outcome, upstream, details_raw) ==
               [Outcome("fill_movie_details", inp.imdb_id, outcome, upstream)
                   EXCEPT !.details_raw = details_raw]
       IN  IF AlreadyFull(movie)
           THEN /\ out' = done("returned", 0, PyNone)
                /\ UNCHANGED <<movies, genres>>
           ELSE IF f.exc # "none"
           THEN /\ out' = done("raised", f.calls + f.http, PyNone)
                /\ UNCHANGED <<movies, genres>>
           ELSE IF NoDetails(f.v)
           THEN /\ out' = done("returned", f.calls + f.http, f.v)
                /\ UNCHANGED <<movies, genres>>
           ELSE IF n.exc # "none"
           THEN /\ out' = done("raised", f.calls + f.http, f.v)
                /\ UNCHANGED <<movies, genres>>
           ELSE /\ out' = done("returned", f.calls + f.http, f.v)
                /\ movies' = (movies \ {movie}) \cup {ApplyDetails(movie, n.v)}
                /\ genres' = genres \cup get_or_create_genres(n.v.Genres)
    /\ UNCHANGED <<clock, settings, searchTerms>>

----------------------------------------------------------------------------
(* Search *)

TitleNames == <<"get", "get_by_title", "title", "by_title">>

MovieStr == PyStr(<<"m", "o", "v", "i", "e">>)

SearchItem(title, year, imdb_id, type) ==
    [Title |-> title, Year |-> year, imdbID |-> imdb_id, Type |-> type]

\* the Type read off a title lookup's result: res.get("Type") for a dict,
\* else getattr(res, "type", None), which is not called
ResultType(res) ==
    IF Is(res, "dict") THEN Ok(DictGet(res, "Type"))
    ELSE IF Is(res, "obj")
    THEN LET a == Attr(res, "type") IN
         IF a.k = "raise" THEN Raise("Error")
         ELSE IF a.k = "call" THEN Ok(PyOther(<<"<", "m", "e", "t", "h", "o", "d", ">">>))
         ELSE Ok(a.v)
    ELSE Ok(PyNone)

\* line 206: the bare title, after the client calls of `trace`
BareTitle(item, trace) ==
    [exc |-> "none", calls |-> Len(trace), trace |-> trace,
     data |-> SearchItem(item, PyNone, PyNone, PyNone)]

\* lines 193-200: what a truthy lookup result makes of the item, det being
\* its normalized details and type its Type; a failure here is caught by
\* `except Exception` and ends the loop
TitleHit(item, trace, det, type) ==
    IF det.exc # "none" \/ type.exc # "none"
    THEN BareTitle(item, trace)
    ELSE [exc |-> "none", calls |-> Len(trace), trace |-> trace,
          data |-> SearchItem(PyOr(det.v.Title, item), det.v.Year, det.v.imdbID, type.v)]

TitleConvention_keyword(getter_name) == "title"

\* line 192: get is called as getter(title=item), every other name as
\* getter(item)
TitleConvention(getter_name) == IF getter_name = "get" THEN "title" ELSE "pos"

\* the lookup loop of _normalize_search_item for a string item, from the
\* i-th name on: [exc, data, calls, trace]; trace = the calls made, in order
RECURSIVE LookupTitle(_, _, _, _)
LookupTitle(item, omdb_client, i, trace) ==
    IF i > Len(TitleNames) THEN BareTitle(item, trace)
    ELSE IF ~HasMethod(omdb_client, TitleNames[i])
    THEN LookupTitle(item, omdb_client, i + 1, trace)
    ELSE LET name == TitleNames[i]
             getter == omdb_client[name]
             res == getter[TitleConvention(name)]
             t1 == Append(trace, Attempt(name, TitleConvention(name), res))
         IN  IF res.exc = "TypeError"
             THEN LookupTitle(item, omdb_client, i + 1, t1)
             ELSE IF res.exc # "none"
             THEN BareTitle(item, t1)
             ELSE IF ~Truthy(res.v)
             THEN LookupTitle(item, omdb_client, i + 1, t1)
             ELSE TitleHit(item, t1, _normalize_detail_obj(res.v), ResultType(res.v))

\* _normalize_search_item(item, omdb_client): [exc, data, calls, trace]
_normalize_search_item(item, omdb_client) ==
    IF Is(item, "str") THEN LookupTitle(item, omdb_client, 1, <<>>)
    ELSE IF Is(item, "dict")
    THEN [exc |-> "none", calls |-> 0, trace |-> <<>>,
          data |-> SearchItem(DictGet(item, "Title"), DictGet(item, "Year"),
                              PyOr(DictGet(item, "imdbID"),
                                   PyOr(DictGet(item, "imdb_id"), DictGet(item, "imdbId"))),
                              DictGet(item, "Type"))]
    ELSE LET obj == IF Is(item, "obj") THEN item ELSE PyObj(<<>>)
             title == _callable_attr(obj, "title")
             year == _callable_attr(obj, "year")
             id1 == _callable_attr(obj, "imdb_id")
             id2 == IF Truthy(id1.v) THEN id1 ELSE _callable_attr(obj, "imdbID")
             type == _callable_attr(obj, "type")
             raised == \E r \in {title, year, id1, id2, type} : r.exc # "none"
         IN  [exc |-> IF raised THEN "Error" ELSE "none", calls |-> 0, trace |-> <<>>,
              data |-> SearchItem(title.v, year.v, id2.v, type.v)]

\* _should_override_cache_guard()
_should_override_cache_guard(conf) == conf.OMDB_ALLOW_RESCRAPE \/ conf.DEBUG

\* normalized_search_term
NormalizeTerm(search) == CollapseWs(Lower(search))

Unwrap_lowercaseOnly(response) ==
    LET results == PyOr(response, PyList(<<>>)) IN
    IF Is(results, "dict")
    THEN LET inner == PyOr(DictGet(results, "search"), DictGet(results, "results"))
         IN  IF Is(inner, "none") THEN PyList(<<>>) ELSE inner
    ELSE results

\* the first key that is present, whatever its value
Unwrap_firstPresent(response) ==
    LET results == PyOr(response, PyList(<<>>)) IN
    IF ~Is(results, "dict") THEN results
    ELSE IF "Search" \in DOMAIN results.dict THEN results.dict.Search
    ELSE IF "search" \in DOMAIN results.dict THEN results.dict.search
    ELSE IF "results" \in DOMAIN results.dict THEN results.dict.results
    ELSE PyList(<<>>)

\* the envelope unwrapping of search_and_save: the value the loop iterates
Unwrap(response) ==
    LET results == PyOr(response, PyList(<<>>)) IN
    IF Is(results, "dict")
    THEN LET inner == PyOr(DictGet(results, "Search"),
                           PyOr(DictGet(results, "search"), DictGet(results, "results")))
         IN  IF Is(inner, "none") THEN PyList(<<>>) ELSE inner
    ELSE results

\* lines 284-286: title, year and imdb_id as the entry gives them
Unresolved(data) == [title |-> data.Title, year |-> data.Year, imdb_id |-> data.imdbID]

\* lines 294-299: the entry's fields after a by-title resolution whose
\* normalized result is `details`; a failure leaves them as they were
MergeResolved(data, details) ==
    IF details.exc # "none"
    THEN Unresolved(data)
    ELSE [title |-> PyOr(details.v.Title, data.Title),
          year |-> PyOr(details.v.Year, data.Year),
          imdb_id |-> PyOr(details.v.imdbID, data.imdbID)]

\* the by-title resolution of an entry without imdbID:
\* [r |-> [title, year, imdb_id], calls]
ResolveByTitle(data, omdb_client) ==
    IF Truthy(data.imdbID) \/ ~Truthy(data.Title) \/ ~HasMethod(omdb_client, "get")
    THEN [r |-> Unresolved(data), calls |-> 0]
    ELSE LET resolver == omdb_client["get"]
             resolved == IF Truthy(data.Year) THEN resolver.title_year ELSE resolver.title
         IN  IF resolved.exc # "none"
             THEN [r |-> Unresolved(data), calls |-> 1]
             ELSE [r |-> MergeResolved(data, _normalize_detail_obj(resolved.v)),
                   calls |-> 1]

\* a store without the unique key on imdb_id: every call inserts
GetOrCreateMovie_insert(table, imdb_id, title, year_val) ==
    table \cup {NewMovie(imdb_id, title, year_val)}

\* update_or_create instead of get_or_create
GetOrCreateMovie_update(table, imdb_id, title, year_val) ==
    {m \in table : m.imdb_id # imdb_id} \cup {NewMovie(imdb_id, title, year_val)}

\* Movie.objects.get_or_create(imdb_id=imdb_id, defaults={title, year})
GetOrCreateMovie(table, imdb_id, title, year_val) ==
    IF \E m \in table : m.imdb_id = imdb_id
    THEN table
    ELSE table \cup {NewMovie(imdb_id, title, year_val)}

SkippedType_never(type) == FALSE

\* line 281: the entry is not a movie
SkippedType(type) == Truthy(type) /\ type # MovieStr

\* lines 301-325: the entry after the by-title resolution res; `calls` are
\* the client calls the normalization made
SaveResolved(res, calls, table) ==
    IF ~Truthy(res.r.imdb_id)
    THEN [exc |-> "none", table |-> table, calls |-> calls + res.calls, saved |-> {}]
    ELSE [exc |-> "none", calls |-> calls + res.calls, saved |-> {res.r.imdb_id},
          table |-> GetOrCreateMovie(table, res.r.imdb_id, res.r.title,
                                     NormalizeYear(res.r.year))]

\* lines 277-325: the loop body after _normalize_search_item returned n
ProcessNormalized(n, omdb_client, table) ==
    IF n.exc # "none"
    THEN [exc |-> n.exc, table |-> table, calls |-> n.calls, saved |-> {}]
    ELSE IF SkippedType(n.data.Type)
    THEN [exc |-> "none", table |-> table, calls |-> n.calls, saved |-> {}]
    ELSE SaveResolved(ResolveByTitle(n.data, omdb_client), n.calls, table)

\* one pass of the loop body of search_and_save over `raw`:
\* [exc, table, calls, saved]
ProcessEntry(raw, omdb_client, table) ==
    ProcessNormalized(_normalize_search_item(raw, omdb_client), omdb_client, table)

\* the loop of search_and_save over results[i..]: [exc, table, calls, saved]
RECURSIVE ProcessResults(_, _, _, _, _, _)
\* the loop after the pass over results[i] gave e: an exception ends the
\* call, otherwise the loop goes on
AfterEntry(results, i, omdb_client, calls, saved, e) ==
    IF e.exc # "none"
    THEN [exc |-> e.exc, table |-> e.table, calls |-> calls + e.calls, saved |-> saved]
    ELSE ProcessResults(results, i + 1, omdb_client, e.table, calls + e.calls,
                        saved \cup e.saved)

ProcessResults(results, i, omdb_client, table, calls, saved) ==
    IF i > Len(results)
    THEN [exc |-> "none", table |-> table, calls |-> calls, saved |-> saved]
    ELSE AfterEntry(results, i, omdb_client, calls, saved,
                    ProcessEntry(results[i], omdb_client, table))

\* the key of the envelope that `inner` comes from, "" when results is no
\* dict or inner is None
InnerKey(response) ==
    IF ~Is(PyOr(response, PyList(<<>>)), "dict") THEN ""
    ELSE IF Truthy(DictGet(response, "Search")) THEN "Search"
    ELSE IF Truthy(DictGet(response, "search")) THEN "search"
    ELSE IF ~Is(DictGet(response, "results"), "none") THEN "results"
    ELSE ""

\* search_and_save from the search call on: [exc, table, calls, saved]
SearchAndProcess(response, omdb_client, table) ==
    IF response.exc # "none"
    THEN [exc |-> response.exc, table |-> table, calls |-> 1, saved |-> {}]
    ELSE LET results == Unwrap(response.v) IN
         \* len(inner) or the for loop fails on anything but a list or a string
         IF ~Is(results, "list") /\ ~Is(results, "str")
         THEN [exc |-> "TypeError", table |-> table, calls |-> 1, saved |-> {}]
         ELSE ProcessResults(IF Is(results, "list") THEN results.list
                             ELSE [i \in 1..Len(results.str) |-> PyStr(<<results.str[i]>>)],
                             1, omdb_client, table, 1, {})

Time(n) == [time |-> n]

\* one day, in ticks of the clock
DayTicks == 2

Recent_shorter(created, last_search, now) ==
    ~created /\ Truthy(last_search) /\ last_search.time > now - (DayTicks - 1)

\* recent, for the SearchTerm row get_or_create returned
Recent(created, last_search, now) ==
    ~created /\ Truthy(last_search) /\ last_search.time > now - DayTicks

\* a second row for the term instead of a stamp on the row it has
Stamp_insert(table, term, time) ==
    table \cup {[term |-> term, last_search |-> Time(time)]}

\* lines 330-331: search_term.last_search = now(); search_term.save()
Stamp(table, term, time) ==
    {r \in table : r.term # term} \cup {[term |-> term, last_search |-> Time(time)]}

\* lines 257-331: the end of a search_and_save call the Cache Guard let
\* through, p being what the search and the loop did; `table` holds the
\* term's row. An exception leaves the call before the stamp of line 330.
Searched(normalized_search_term, table, p) ==
    /\ out' = [Outcome("search_and_save", PyStr(normalized_search_term),
                       IF p.exc # "none" THEN "raised" ELSE "returned", p.calls)
                  EXCEPT !.saved = p.saved,
                         !.inner_key = IF inp.response.exc = "none"
                                       THEN InnerKey(inp.response.v) ELSE ""]
    /\ searchTerms' =
          IF p.exc # "none" THEN table ELSE Stamp(table, normalized_search_term, clock)
    /\ movies' = p.table

\* search_and_save(search)
search_and_save ==
    /\ inp.op = "search_and_save"
    /\ inp' = Idle
    /\ LET normalized_search_term == NormalizeTerm(inp.search)
           created == ~\E r \in searchTerms : r.term = normalized_search_term
           table == IF created
                    THEN searchTerms \cup
                         {[term |-> normalized_search_term, last_search |-> PyNone]}
                    ELSE searchTerms
           search_term == CHOOSE r \in table : r.term = normalized_search_term
           recent == Recent(created, search_term.last_search, clock)
       IN  IF recent /\ ~_should_override_cache_guard(settings)
           THEN /\ out' = Outcome("search_and_save", PyStr(normalized_search_term),
                                  "returned", 0)
                /\ searchTerms' = table
                /\ UNCHANGED movies
           ELSE Searched(normalized_search_term, table,
                         SearchAndProcess(inp.response, inp.client, movies))
    /\ UNCHANGED <<clock, settings, genres>>

----------------------------------------------------------------------------
(* The inputs the calls are made with *)

T1 == PyStr(<<"M">>)
T2 == PyStr(<<"N">>)
ID1 == PyStr(<<"t", "1">>)
ID2 == PyStr(<<"t", "2">>)
Plot1 == PyStr(<<"p">>)

\* a detail response of the upstream API
P_Full ==
    PyDict([Title |-> T2, Year |-> PyStr(<<"1", "9", "9", "9">>), imdbID |-> ID1,
            Plot |-> Plot1, Runtime |-> PyStr(<<"9", "0", " ", "m", "i", "n">>),
            Genre |-> PyStr(<<"A", ",", " ", "D">>), Type |-> MovieStr,
            Response |-> TrueStr])

\* a detail response with an empty title and no usable year, runtime, plot or genre
P_Sparse ==
    PyDict([Title |-> PyStr(<<>>), Year |-> PyStr(<<"N", "/", "A">>), imdbID |-> ID1,
            Runtime |-> PyStr(<<"N", "/", "A">>), Response |-> TrueStr])

\* an OmdbMovie-like object: properties and zero-argument callables
P_Obj ==
    PyObj([title |-> [k |-> "call", v |-> T2],
           year |-> [k |-> "value", v |-> PyInt(2001)],
           imdb_id |-> [k |-> "value", v |-> ID2],
           plot |-> [k |-> "call", v |-> Plot1],
           runtime_minutes |-> [k |-> "value", v |-> PyInt(90)],
           genres |-> [k |-> "value", v |-> PyList(<<PyStr(<<"D">>)>>)],
           type |-> [k |-> "value", v |-> MovieStr]])

\* an OmdbMovie whose Year is "1999-": the year property fails with ValueError
P_ObjBad ==
    PyObj([title |-> [k |-> "value", v |-> T1],
           year |-> [k |-> "raise", v |-> PyNone],
           imdb_id |-> [k |-> "value", v |-> ID1]])

\* the error response of the upstream API
P_Error == PyDict([Response |-> PyStr(<<"F", "a", "l", "s", "e">>)])

Method(pos, imdbid, id, title, title_year) ==
    [pos |-> pos, imdbid |-> imdbid, id |-> id, title |-> title, title_year |-> title_year]

TE == Raise("TypeError")
ER == Raise("Error")

\* OmdbClient of omdb/client.py: search and get_movie_details only
RepoClient == <<>>

\* a client with get(title=..., year=..., imdbid=...)
GetClient(p) == [get |-> Method(TE, Ok(p), TE, Ok(p), Ok(p))]

\* a client with by_id(x) and get_by_title(x)
ByIdClient(p) == [by_id |-> Method(Ok(p), TE, TE, TE, TE),
                  get_by_title |-> Method(Ok(p), TE, TE, TE, TE)]

\* a client whose get_movie(imdbid=...) fails with a network error, and
\* whose get fails on every call
FailingClient == [get_movie |-> Method(TE, ER, TE, TE, TE),
                  get |-> Method(ER, ER, ER, ER, ER)]

HttpError == [kind |-> "error", data |-> PyNone]

HttpOutcomes == {HttpError, [kind |-> "ok", data |-> P_Full],
                 [kind |-> "ok", data |-> P_Error]}

\* the client and the network a fill_movie_details call meets; the network
\* only matters to a client without a working by-ID method
FillEnvs ==
    {<<RepoClient, h>> : h \in HttpOutcomes}
    \cup {<<FailingClient, HttpError>>}
    \cup {<<GetClient(p), HttpError>> : p \in {P_Full, P_Sparse, P_Obj, P_ObjBad, EmptyDict}}
    \cup {<<ByIdClient(p), HttpError>> : p \in {PyNone, T2}}

SearchClients == {RepoClient, FailingClient, GetClient(P_Full), ByIdClient(P_Obj)}

Y1999 == PyStr(<<"1", "9", "9", "9">>)
Y1999Dash == PyStr(<<"1", "9", "9", "9", "-">>)

E_Movie == PyDict([Title |-> T1, Year |-> Y1999, imdbID |-> ID1, Type |-> MovieStr])
E_Series ==
    PyDict([Title |-> T2, Year |-> Y1999Dash, imdbID |-> ID2,
            Type |-> PyStr(<<"s", "e", "r", "i", "e", "s">>)])
E_NoId == PyDict([Title |-> T2, Year |-> PyInt(2001)])
E_Alias == PyDict([Title |-> T2, Year |-> Y1999Dash, imdb_id |-> ID1])
E_EmptyType == PyDict([Title |-> T2, imdbID |-> ID2, Type |-> PyStr(<<>>)])
E_Obj == P_Obj
E_ObjBad == P_ObjBad
E_Str == T2

ResultLists ==
    {<<>>, <<E_Movie>>, <<E_Str>>, <<E_EmptyType>>, <<E_Alias, E_Movie>>,
     <<E_Movie, E_ObjBad>>, <<E_Obj, E_Series>>, <<E_Series, E_NoId>>}

\* {"Response": "True", "Search": [...]}
Envelope(l) == PyDict([Response |-> TrueStr, Search |-> PyList(l)])

SearchResponses ==
    {ER, Ok(PyNone), Ok(P_Error)}
    \cup {Ok(PyList(l)) : l \in ResultLists}
    \cup {Ok(Envelope(l)) : l \in ResultLists}
    \cup {Ok(PyDict([search |-> PyList(<<E_Movie>>)])),
          Ok(PyDict([Search |-> PyList(<<>>), results |-> PyList(<<E_Obj>>)]))}

Queries == {<<"M", " ", " ", "X">>, <<"m", "\t", "x">>}

Conf(rescrape, debug, k1, k2, k3) ==
    [OMDB_ALLOW_RESCRAPE |-> rescrape, DEBUG |-> debug,
     OMDB_API_KEY |-> k1, OMDB_APIKEY |-> k2, OMDB_KEY |-> k3]

Key == PyStr(<<"k">>)

SettingsChoices ==
    {Conf(FALSE, FALSE, PyNone, PyNone, PyNone),
     Conf(TRUE, FALSE, PyNone, Key, PyNone),
     Conf(FALSE, TRUE, PyNone, PyNone, Key)}

\* a partial Movie row that already has a plot and a genre (edited by hand)
SeedMovie ==
    [imdb_id |-> ID1, title |-> T1, year |-> PyInt(1998), plot |-> PyStr(<<"o">>),
     runtime_minutes |-> PyInt(5), genres |-> {<<"X">>}, is_full_record |-> FALSE]

MaxClock == 2

----------------------------------------------------------------------------
(* The system *)

NoOutcome == Outcome("none", PyNone, "returned", 0)

Init ==
    /\ clock = 0
    /\ settings \in SettingsChoices
    /\ searchTerms = {}
    /\ \/ movies = {} /\ genres = {}
       \/ movies = {SeedMovie} /\ genres = {<<"X">>}
    /\ inp = Idle
    /\ out = NoOutcome

\* time passes between calls
Tick ==
    /\ inp = Idle /\ out = NoOutcome
    /\ clock < MaxClock
    /\ clock' = clock + 1
    /\ UNCHANGED <<settings, searchTerms, movies, genres, inp, out>>

\* a caller calls search_and_save(search); the upstream will answer `response`
CallSearch ==
    /\ inp = Idle /\ out = NoOutcome
    /\ \E search \in Queries, client \in SearchClients, response \in SearchResponses :
           inp' = [op |-> "search_and_save", search |-> search, client |-> client,
                   response |-> response]
    /\ UNCHANGED <<clock, settings, searchTerms, movies, genres, out>>

\* a caller calls fill_movie_details(movie) for a stored Movie
CallFill ==
    /\ inp = Idle /\ out = NoOutcome
    /\ \E m \in movies, env \in FillEnvs :
           inp' = [op |-> "fill_movie_details", imdb_id |-> m.imdb_id,
                   client |-> env[1], http |-> env[2]]
    /\ UNCHANGED <<clock, settings, searchTerms, movies, genres, out>>

\* the caller has taken note of how the call ended
Return ==
    /\ inp = Idle /\ out # NoOutcome
    /\ out' = NoOutcome
    /\ UNCHANGED <<clock, settings, searchTerms, movies, genres, inp>>

Next ==
    \/ Tick
    \/ CallSearch
    \/ CallFill
    \/ search_and_save
    \/ fill_movie_details
    \/ Return

Spec == Init /\ [][Next]_vars

----------------------------------------------------------------------------
(* The helper functions on their own: _fetch_by_imdb_id,                   *)
(* _normalize_detail_obj and _normalize_search_item applied to inputs of   *)
(* every shape, and the year search_and_save stores.                       *)

\* what one call of a by-ID candidate may do
ProbeOutcomes == {Ok(P_Full), Ok(PyNone), TE, ER}

\* a candidate method: every outcome of getter(x), getter(imdbid=x), getter(id=x)
ProbeMethods == {Method(a, b, c, TE, TE) : a, b, c \in ProbeOutcomes}

\* a candidate that comes later in the probing order
LaterMethods == {Method(a, b, ER, TE, TE) : a, b \in {Ok(P_Sparse), TE, ER}}

\* an attribute that is a plain value, not a method
PlainAttr == [value |-> PyStr(<<"7">>)]

FetchClients ==
    {RepoClient}
    \cup {[by_id |-> m] : m \in ProbeMethods}
    \cup {[get_movie |-> m, get |-> l] : m \in ProbeMethods, l \in LaterMethods}
    \cup {[id |-> PlainAttr, lookup |-> l] : l \in LaterMethods}

\* what the GET of the HTTP fallback may do
FetchHttp ==
    {HttpError,
     [kind |-> "status", data |-> P_Full],
     [kind |-> "notjson", data |-> PyNone],
     [kind |-> "ok", data |-> P_Full],
     [kind |-> "ok", data |-> P_Error],
     [kind |-> "ok", data |-> PyDict([Title |-> T1])],
     [kind |-> "ok", data |-> PyList(<<P_Full>>)]}

FetchSettings ==
    {Conf(FALSE, FALSE, PyNone, PyNone, PyNone),
     Conf(FALSE, FALSE, Key, PyNone, PyNone),
     Conf(FALSE, FALSE, PyNone, Key, PyNone),
     Conf(FALSE, FALSE, PyStr(<<>>), PyNone, Key)}

\* Year values of every form
YearInputs ==
    {PyNone, PyInt(1999), PyInt(7), Y1999, Y1999Dash,
     PyStr(<<"1", "9">>), PyStr(<<"1", "9", "9", "9", "1", "2">>),
     PyStr(<<"1", "9", "a">>), PyStr(<<"1", "9", "9", "9", "5", "x">>),
     PyStr(<<"N", "/", "A">>), PyStr(<<>>),
     PyOther(<<"1", "9", "9", "9", ".", "5">>)}

\* an OmdbMovie whose Runtime is "N/A": the runtime_minutes property fails
P_ObjBadRuntime ==
    PyObj([title |-> [k |-> "value", v |-> T1],
           year |-> [k |-> "value", v |-> PyInt(1999)],
           imdb_id |-> [k |-> "value", v |-> ID1],
           runtime_minutes |-> [k |-> "raise", v |-> PyNone]])

DetailInputs ==
    {PyNone, T2, PyList(<<>>), EmptyDict, P_Full, P_Sparse, P_Error, P_Obj, P_ObjBad,
     P_ObjBadRuntime}
    \cup {PyDict([Title |-> T1, Year |-> y]) : y \in YearInputs}
    \cup {PyObj([year |-> [k |-> "value", v |-> y]]) : y \in YearInputs}

\* what one call of a by-title lookup may do
TitleOutcomes == {Ok(P_Full), Ok(P_Obj), Ok(P_ObjBad), Ok(PyNone), Ok(EmptyDict), TE, ER}

\* a lookup method, called as getter(title=x) or as getter(x)
TitleMethod(res) == Method(res, TE, TE, res, TE)

\* a get that takes its title only positionally
PositionalGet(res) == Method(res, TE, TE, TE, TE)

\* a lookup method that takes its title only as title=
KeywordOnly(res) == Method(TE, TE, TE, res, TE)

TitleClients ==
    {RepoClient}
    \cup {[get_by_title |-> KeywordOnly(Ok(P_Full)), title |-> TitleMethod(b)] :
             b \in TitleOutcomes}
    \cup {[get |-> TitleMethod(a), get_by_title |-> TitleMethod(b)] :
             a, b \in TitleOutcomes}
    \cup {[title |-> TitleMethod(a), by_title |-> TitleMethod(b)] :
             a, b \in TitleOutcomes}
    \cup {[get |-> PositionalGet(Ok(P_Full)), by_title |-> TitleMethod(b)] :
             b \in TitleOutcomes}
    \cup {[get |-> PlainAttr, title |-> TitleMethod(b)] : b \in TitleOutcomes}

ItemInputs == {T1, E_Movie, E_Alias, E_Obj, E_ObjBad}

\* a search hit whose Year is y
E_Year(y) == PyDict([Title |-> T1, Year |-> y, imdbID |-> ID2, Type |-> MovieStr])

FunctionsInit ==
    /\ clock = 0
    /\ settings \in FetchSettings
    /\ searchTerms = {}
    /\ movies = {}
    /\ genres = {}
    /\ inp = Idle
    /\ out = NoOutcome

\* no call is in flight and nothing is stored yet
Fresh == inp = Idle /\ out = NoOutcome /\ movies = {} /\ searchTerms = {}

CallFetch ==
    /\ Fresh
    /\ \E client \in FetchClients, http \in FetchHttp :
           inp' = [op |-> "_fetch_by_imdb_id", client |-> client, http |-> http]
    /\ UNCHANGED <<clock, settings, searchTerms, movies, genres, out>>

\* what a _fetch_by_imdb_id call did: the candidate calls it made (trace),
\* the HTTP requests it made, and what it returned or raised
FetchOutcome(p, f) ==
    [op |-> "_fetch_by_imdb_id", exc |-> f.exc, v |-> f.v, calls |-> f.calls,
     http |-> f.http, trace |-> p.trace, probed |-> p.done]

\* _fetch_by_imdb_id(omdb_client, imdb_id)
Fetch ==
    /\ inp.op = "_fetch_by_imdb_id"
    /\ inp' = Idle
    /\ out' = FetchOutcome(ProbeById(inp.client, 1, <<>>),
                           _fetch_by_imdb_id(inp.client, settings, inp.http))
    /\ UNCHANGED <<clock, settings, searchTerms, movies, genres>>

CallNormalizeDetail ==
    /\ Fresh
    /\ \E detail \in DetailInputs : inp' = [op |-> "_normalize_detail_obj", detail |-> detail]
    /\ UNCHANGED <<clock, settings, searchTerms, movies, genres, out>>

\* what a _normalize_detail_obj call returned (v) or that it raised (exc)
DetailOutcome(detail, n) ==
    [op |-> "_normalize_detail_obj", detail |-> detail, exc |-> n.exc,
     v |-> IF n.exc = "none" THEN n.v ELSE NoDetail]

\* _normalize_detail_obj(detail)
NormalizeDetail ==
    /\ inp.op = "_normalize_detail_obj"
    /\ inp' = Idle
    /\ out' = DetailOutcome(inp.detail, _normalize_detail_obj(inp.detail))
    /\ UNCHANGED <<clock, settings, searchTerms, movies, genres>>

CallNormalizeItem ==
    /\ Fresh
    /\ \E item \in ItemInputs, client \in TitleClients :
           inp' = [op |-> "_normalize_search_item", item |-> item, client |-> client]
    /\ UNCHANGED <<clock, settings, searchTerms, movies, genres, out>>

\* what a _normalize_search_item call returned (data), the lookups it made
\* (trace), or that it raised (exc)
ItemOutcome(item, n) ==
    [op |-> "_normalize_search_item", item |-> item, exc |-> n.exc, data |-> n.data,
     trace |-> n.trace]

\* _normalize_search_item(item, omdb_client)
NormalizeItem ==
    /\ inp.op = "_normalize_search_item"
    /\ inp' = Idle
    /\ out' = ItemOutcome(inp.item, _normalize_search_item(inp.item, inp.client))
    /\ UNCHANGED <<clock, settings, searchTerms, movies, genres>>

\* a caller calls search_and_save and the upstream answers one hit, with a
\* Year of any form
CallSearchYear ==
    /\ Fresh
    /\ \E search \in Queries, y \in YearInputs :
           inp' = [op |-> "search_and_save", search |-> search, client |-> RepoClient,
                   response |-> Ok(PyList(<<E_Year(y)>>))]
    /\ UNCHANGED <<clock, settings, searchTerms, movies, genres, out>>

FunctionsNext ==
    \/ CallFetch
    \/ Fetch
    \/ CallNormalizeDetail
    \/ NormalizeDetail
    \/ CallNormalizeItem
    \/ NormalizeItem
    \/ CallSearchYear
    \/ search_and_save
    \/ Return

SpecFunctions == FunctionsInit /\ [][FunctionsNext]_vars

----------------------------------------------------------------------------
(* Two search_and_save calls running in parallel. Nothing in               *)
(* search_and_save takes a lock or opens a transaction, so the calls       *)
(* interleave between their database operations and upstream calls; each   *)
(* get_or_create and each save() is one operation of the store, which      *)
(* keeps SearchTerm.term and Movie.imdb_id unique.                         *)

Procs == {1, 2}

ParallelResponses ==
    {ER, Ok(PyList(<<E_Movie>>)), Ok(PyList(<<E_Alias, E_Movie>>)),
     Ok(PyList(<<E_Movie, E_ObjBad>>)), Ok(Envelope(<<E_Obj, E_Series>>))}

\* a call about to run line 240: its arguments, its position (pc), the
\* index of the entry its loop is at (i), the identifiers it has given to
\* get_or_create, whether it has called search and stamped the term
Started(search, client, response) ==
    [pc |-> "guard", search |-> search, client |-> client, response |-> response,
     i |-> 0, saved |-> {}, searched |-> FALSE, stamped |-> FALSE]

\* the entries the loop of lines 272-325 iterates for the answer `v` of the
\* search: [exc, list]
LoopEntries(results) ==
    IF Is(results, "list") THEN [exc |-> "none", list |-> results.list]
    ELSE IF Is(results, "str")
    THEN [exc |-> "none", list |-> [i \in 1..Len(results.str) |-> PyStr(<<results.str[i]>>)]]
    ELSE [exc |-> "TypeError", list |-> <<>>]

\* two callers call search_and_save at the same time
CallParallel ==
    /\ inp = Idle /\ out = NoOutcome
    /\ \E s1, s2 \in Queries, r1, r2 \in ParallelResponses :
           inp' = [op |-> "parallel",
                   procs |-> <<Started(s1, RepoClient, r1), Started(s2, RepoClient, r2)>>]
    /\ UNCHANGED <<clock, settings, searchTerms, movies, genres, out>>

\* the call p is at position pc
At(p, pc) == inp.op = "parallel" /\ inp.procs[p].pc = pc

\* the call p moves on as the record `proc`
Goes(p, proc) == inp' = [inp EXCEPT !.procs[p] = proc]

\* lines 240-255 for the call p: get_or_create of the term's row and the
\* Cache Guard on the row as read
GuardRead(p) ==
    /\ At(p, "guard")
    /\ LET normalized_search_term == NormalizeTerm(inp.procs[p].search)
           created == ~\E r \in searchTerms : r.term = normalized_search_term
           table == IF created
                    THEN searchTerms \cup
                         {[term |-> normalized_search_term, last_search |-> PyNone]}
                    ELSE searchTerms
           search_term == CHOOSE r \in table : r.term = normalized_search_term
           recent == Recent(created, search_term.last_search, clock)
       IN  /\ searchTerms' = table
           /\ Goes(p, [inp.procs[p] EXCEPT
                          !.pc = IF recent /\ ~_should_override_cache_guard(settings)
                                 THEN "done" ELSE "search"])
    /\ UNCHANGED <<clock, settings, movies, genres, out>>

\* lines 260-270 for the call p: the upstream search and the unwrapping of
\* its answer; an exception leaves the call
SearchUpstream(p) ==
    /\ At(p, "search")
    /\ LET response == inp.procs[p].response
           failed == response.exc # "none"
                        \/ LoopEntries(Unwrap(response.v)).exc # "none"
       IN  Goes(p, [inp.procs[p] EXCEPT !.searched = TRUE, !.i = 1,
                                        !.pc = IF failed THEN "done" ELSE "loop"])
    /\ UNCHANGED <<clock, settings, searchTerms, movies, genres, out>>

\* the call p after the pass e over entry i of its loop
AfterPass(p, e) ==
    /\ movies' = e.table
    /\ Goes(p, [inp.procs[p] EXCEPT !.i = @ + 1, !.saved = @ \cup e.saved,
                                    !.pc = IF e.exc # "none" THEN "done" ELSE "loop"])

\* lines 272-325 for the call p: one pass of the loop, with its
\* Movie.objects.get_or_create, or the end of the loop
SaveEntry(p) ==
    /\ At(p, "loop")
    /\ LET results == LoopEntries(Unwrap(inp.procs[p].response.v)).list
           i == inp.procs[p].i
       IN  IF i > Len(results)
           THEN Goes(p, [inp.procs[p] EXCEPT !.pc = "stamp"]) /\ UNCHANGED movies
           ELSE AfterPass(p, ProcessEntry(results[i], inp.procs[p].client, movies))
    /\ UNCHANGED <<clock, settings, searchTerms, genres, out>>

\* lines 330-331 for the call p: the stamp of the term
StampLastSearch(p) ==
    /\ At(p, "stamp")
    /\ searchTerms' = Stamp(searchTerms, NormalizeTerm(inp.procs[p].search), clock)
    /\ Goes(p, [inp.procs[p] EXCEPT !.pc = "done", !.stamped = TRUE])
    /\ UNCHANGED <<clock, settings, movies, genres, out>>

\* both calls have ended
ReturnBoth ==
    /\ inp.op = "parallel"
    /\ \A p \in Procs : inp.procs[p].pc = "done"
    /\ inp' = Idle
    /\ UNCHANGED <<clock, settings, searchTerms, movies, genres, out>>

ParallelNext ==
    \/ Tick
    \/ CallParallel
    \/ \E p \in Procs : GuardRead(p)
    \/ \E p \in Procs : SearchUpstream(p)
    \/ \E p \in Procs : SaveEntry(p)
    \/ \E p \in Procs : StampLastSearch(p)
    \/ ReturnBoth

SpecParallel == Init /\ [][ParallelNext]_vars

----------------------------------------------------------------------------
(* Properties *)

\* the steps in which search_and_save / fill_movie_details runs
SearchStep == inp.op = "search_and_save" /\ inp' = Idle
FillStep == inp.op = "fill_movie_details" /\ inp' = Idle

\* the SearchTerm rows of term t
RowsOf(table, t) == {r \in table : r.term = t}

\* the term of the call in flight has a row that existed before the call and
\* was stamped less than 24 hours ago
RecentBefore ==
    \E r \in RowsOf(searchTerms, NormalizeTerm(inp.search)) :
        r.last_search # PyNone /\ clock - r.last_search.time < DayTicks

OverrideConfigured == settings.OMDB_ALLOW_RESCRAPE \/ settings.DEBUG

\* the term's row is stamped with the current time
StampedNow(table, t) == RowsOf(table, t) = {[term |-> t, last_search |-> Time(clock)]}

\* C1: a search_and_save call for a term whose row existed before the call and
\* was stamped within the last 24 hours, with no override configured, makes no
\* upstream call and leaves the Movie, Genre and SearchTerm tables as they
\* were; and a call that completes a search leaves the term stamped with the
\* time of the call, a stamp no later step removes or moves back, so every
\* further call for the term within 24 hours is such a skip.
C1_RecentSkips ==
    [][/\ (SearchStep /\ RecentBefore /\ ~OverrideConfigured)
            => /\ out'.upstream = 0
               /\ out'.outcome = "returned"
               /\ movies' = movies
               /\ genres' = genres
               /\ searchTerms' = searchTerms
       /\ (SearchStep /\ out'.outcome = "returned" /\ out'.upstream > 0)
            => StampedNow(searchTerms', NormalizeTerm(inp.search))
       /\ \A r \in searchTerms : r.last_search # PyNone =>
            \E q \in RowsOf(searchTerms', r.term) :
                q.last_search # PyNone /\ q.last_search.time >= r.last_search.time
       /\ clock' >= clock
      ]_vars

\* C1 witness: a call was skipped (no upstream call) for a term stamped at an
\* earlier time of the same day, by a search that stored a Movie
C1_Witness ==
    /\ out.op = "search_and_save" /\ out.upstream = 0
    /\ ~OverrideConfigured
    /\ \E r \in searchTerms :
          PyStr(r.term) = out.arg /\ r.last_search = Time(clock - 1)
    /\ \E m \in movies : m.imdb_id = ID2

\* the term of the call in flight
TermInFlight == NormalizeTerm(inp.search)

\* C2: every search_and_save call the Cache Guard does not skip ends with the
\* term's last_search set to the current time, whatever the search attempt did.
C2_StampedAfterEverySearch ==
    [][(SearchStep /\ ~(RecentBefore /\ ~OverrideConfigured))
          => StampedNow(searchTerms', TermInFlight)]_vars

\* C3: no call of search_and_save or fill_movie_details ends with an exception
\* passed to its caller.
C3_NothingRaised == out.outcome # "raised"

\* C4: on a recent term with an override configured search_and_save issues the
\* upstream search and restamps last_search; on a term that is not recent it
\* issues the upstream search whether or not an override is configured.
C4_OverrideProceeds ==
    [][/\ (SearchStep /\ RecentBefore /\ OverrideConfigured)
            => out'.upstream >= 1 /\ StampedNow(searchTerms', TermInFlight)
       /\ (SearchStep /\ ~RecentBefore) => out'.upstream >= 1
      ]_vars

\* the Movie row the fill_movie_details call in flight is about
MovieInFlight == MovieOf(movies, inp.imdb_id)

\* C5: fill_movie_details on a Movie already marked full changes no table and
\* makes no upstream call.
C5_FullRecordUntouched ==
    [][(FillStep /\ MovieInFlight.is_full_record)
          => /\ movies' = movies
             /\ genres' = genres
             /\ searchTerms' = searchTerms
             /\ out'.upstream = 0
             /\ out'.outcome = "returned"]_vars

\* C5 witness: a call on a full record has returned without an upstream call
C5_Witness ==
    /\ out.op = "fill_movie_details" /\ out.upstream = 0 /\ out.outcome = "returned"
    /\ \E m \in movies : m.imdb_id = out.arg /\ m.is_full_record /\ m.genres # {}

\* C6: when fill_movie_details runs on a Movie that is not full and
\* _fetch_by_imdb_id returns nothing (None or an empty payload), the Movie and
\* Genre tables are left unchanged, so the Movie is still not full.
C6_NothingFetchedNothingChanged ==
    [][(FillStep /\ ~MovieInFlight.is_full_record
          /\ out'.outcome = "returned" /\ ~Truthy(out'.details_raw))
          => movies' = movies /\ genres' = genres]_vars

\* C6 witness: a client method was called, returned an empty payload, and the
\* Movie is still partial
C6_Witness ==
    /\ out.op = "fill_movie_details" /\ out.outcome = "returned"
    /\ out.upstream > 0 /\ out.details_raw = EmptyDict
    /\ \E m \in movies : m.imdb_id = out.arg /\ ~m.is_full_record

\* the row fill_movie_details is to leave for `old` given the normalized
\* details d, as section 4.5 states it
Filled(old, new, d) ==
    /\ new.imdb_id = old.imdb_id
    /\ new.title = (IF Truthy(d.Title) THEN d.Title ELSE old.title)
    /\ new.year = (IF Truthy(d.Year) THEN d.Year ELSE old.year)
    /\ new.plot = d.Plot
    /\ new.runtime_minutes = d.RuntimeMinutes
    /\ new.genres = SeqToSet(d.Genres)
    /\ new.is_full_record

\* C7: when fill_movie_details runs on a Movie that is not full and
\* _fetch_by_imdb_id returns a payload, the call ends with the Movie holding
\* the normalized title and year where those are truthy and its previous ones
\* otherwise, the normalized plot and runtime, exactly the normalized genres
\* (each a Genre row), and marked full.
C7_FillApplies ==
    [][(FillStep /\ ~MovieInFlight.is_full_record /\ Truthy(out'.details_raw))
          => LET n == _normalize_detail_obj(out'.details_raw) IN
             /\ out'.outcome = "returned"
             /\ n.exc = "none"
             /\ \E new \in movies' :
                   /\ Filled(MovieInFlight, new, n.v)
                   /\ movies' \ {new} = movies \ {MovieInFlight}
                   /\ new.genres \subseteq genres'
             /\ genres \subseteq genres']_vars

UniqueIds(table) == \A a, b \in table : a.imdb_id = b.imdb_id => a = b

\* the entries the loop of the search_and_save call in flight iterates
EntriesInFlight ==
    IF inp.response.exc = "none" /\ Is(Unwrap(inp.response.v), "list")
    THEN Unwrap(inp.response.v).list
    ELSE <<>>

\* row m is what entry `raw` makes get_or_create create
CreatedFrom(m, raw) ==
    LET n == _normalize_search_item(raw, inp.client)
        r == ResolveByTitle(n.data, inp.client).r
    IN  /\ n.exc = "none"
        /\ m.imdb_id = r.imdb_id /\ m.title = r.title /\ m.year = NormalizeYear(r.year)

\* C8: search_and_save keeps every Movie row that existed before the call as
\* it was, never leaves two rows with one identifier, and every row it adds
\* has the identifier, title and year of a search hit.
C8_UpsertKeepsExisting ==
    [][SearchStep
          => /\ movies \subseteq movies'
             /\ UniqueIds(movies')
             /\ \A m \in movies' \ movies :
                   /\ m.imdb_id \in out'.saved
                   /\ \E i \in 1..Len(EntriesInFlight) :
                         CreatedFrom(m, EntriesInFlight[i])]_vars

\* C8 witness: a search hit named a Movie that is a full record, so one that
\* existed before the call
C8_Witness ==
    /\ out.op = "search_and_save" /\ out.outcome = "returned"
    /\ \E m \in movies : m.imdb_id \in out.saved /\ m.is_full_record

\* row m comes from entry `raw`, whose normalized Type satisfies TypeOk
FromEligible(m, raw, TypeOk(_)) ==
    LET n == _normalize_search_item(raw, inp.client)
        r == ResolveByTitle(n.data, inp.client).r
    IN  n.exc = "none" /\ TypeOk(n.data.Type) /\ Truthy(r.imdb_id)
        /\ r.imdb_id = m.imdb_id

TypeAbsentOrMovie(type) == type = PyNone \/ type = MovieStr
TypeFalsyOrMovie(type) == ~Truthy(type) \/ type = MovieStr

\* C9 as stated: every Movie row search_and_save creates has a non-empty
\* imdb_id and comes from an entry whose normalized Type is absent or "movie".
C9_CreatedOnlyForMovies ==
    [][SearchStep
          => \A m \in movies' \ movies :
                /\ Truthy(m.imdb_id)
                /\ \E i \in 1..Len(EntriesInFlight) :
                      FromEligible(m, EntriesInFlight[i], TypeAbsentOrMovie)]_vars

\* C9 amended: every Movie row search_and_save creates has a non-empty imdb_id
\* and comes from an entry whose normalized Type is falsy (absent, null or
\* empty) or "movie", and for which an identifier was resolved.
C9_CreatedOnlyForFalsyOrMovieType ==
    [][SearchStep
          => \A m \in movies' \ movies :
                /\ Truthy(m.imdb_id)
                /\ \E i \in 1..Len(EntriesInFlight) :
                      FromEligible(m, EntriesInFlight[i], TypeFalsyOrMovie)]_vars

\* C9 witness: a search resolved an identifier by title (a second upstream
\* call) and saved it, while the series entry it also returned made no row
C9_Witness ==
    /\ out.op = "search_and_save" /\ out.outcome = "returned"
    /\ out.upstream = 2 /\ out.saved = {ID1}
    /\ ~\E m \in movies : m.imdb_id = ID2

\* the list a {"Response": "True", "Search": [...]} envelope carries
IsPlainEnvelope(response) ==
    /\ response.exc = "none" /\ Is(response.v, "dict")
    /\ DOMAIN response.v.dict = {"Response", "Search"}
    /\ Is(response.v.dict.Search, "list")

\* C10: a search response carrying a list inside the envelope
\* {"Response": "True", "Search": [...]} makes search_and_save iterate the
\* entries of the bare list and leave the Movie table the bare list leaves.
C10_EnvelopeAsBareList ==
    [][(SearchStep /\ IsPlainEnvelope(inp.response))
          => LET bare == inp.response.v.dict.Search
                 p == SearchAndProcess(Ok(bare), inp.client, movies)
             IN  /\ Unwrap(inp.response.v) = Unwrap(bare)
                 /\ \/ out'.upstream = 0 /\ movies' = movies
                    \/ /\ out'.upstream = p.calls
                       /\ movies' = p.table
                       /\ out'.saved = p.saved]_vars

\* C10 witness: a search whose response was an envelope saved the Movie a
\* title lookup resolved
C10_Witness ==
    /\ out.op = "search_and_save" /\ out.outcome = "returned"
    /\ out.inner_key = "Search" /\ out.upstream = 2 /\ out.saved = {ID2}

\* the search_and_save call in flight is not skipped by the Cache Guard
NotSkipped == ~(RecentBefore /\ ~OverrideConfigured)

\* C11: running search_and_save again for the same query with the same
\* upstream response, on the tables the first run left, leaves the Movie
\* table as the first run left it; a run changes no Genre and changes the
\* SearchTerm table only in the one row of its term.
C11_SecondRunChangesNothing ==
    [][(SearchStep /\ NotSkipped)
          => LET second == SearchAndProcess(inp.response, inp.client, movies') IN
             /\ second.table = movies'
             /\ (out'.outcome = "returned" => second.exc = "none")
             /\ genres' = genres
             /\ {r \in searchTerms' : r.term # TermInFlight}
                   = {r \in searchTerms : r.term # TermInFlight}
             /\ Cardinality(RowsOf(searchTerms', TermInFlight)) = 1]_vars

\* C11 witness: a search a day or more after the start found again the
\* Movie an earlier search had created (and fill_movie_details had since
\* completed), and stamped its term
C11_Witness ==
    /\ out.op = "search_and_save" /\ out.outcome = "returned"
    /\ out.upstream >= 1 /\ out.saved = {ID2}
    /\ clock >= DayTicks
    /\ \E m \in movies : m.imdb_id = ID2 /\ m.is_full_record
    /\ \E r \in searchTerms : PyStr(r.term) = out.arg /\ r.last_search = Time(clock)

\* C12: _fetch_by_imdb_id never raises: every call ends by returning a
\* payload or None, whatever the candidate methods and the HTTP request do.
C12_FetchNeverRaises == out.op = "_fetch_by_imdb_id" => out.exc = "none"

\* C13: _normalize_detail_obj never raises: for every payload it returns a
\* record.
C13_NormalizerNeverRaises == out.op = "_normalize_detail_obj" => out.exc = "none"

\* the steps in which _normalize_detail_obj runs on its own
DetailStep == inp.op = "_normalize_detail_obj" /\ inp' = Idle

\* the Year the payload of the call in flight carries: a mapping's "Year",
\* or the year of an object all of whose attributes can be read
YearGiven ==
    IF Is(inp.detail, "dict") THEN <<DictGet(inp.detail, "Year")>>
    ELSE IF /\ Is(inp.detail, "obj")
            /\ \A a \in DOMAIN inp.detail.obj : inp.detail.obj[a].k # "raise"
    THEN <<Attr(inp.detail, "year").v>>
    ELSE <<>>

\* the digits a Year value starts with
LeadingDigits(y) == IF Is(y, "none") THEN <<>> ELSE DigitRun(StrOf(y))

\* r is a 4-digit integer equal to the leading digits of y, or null
FourDigitsOrNull(y, r) ==
    \/ r = PyNone
    \/ /\ Is(r, "int") /\ r.int \in 1000..9999
       /\ IF Is(y, "int") THEN r = y ELSE r.int = ParseInt(LeadingDigits(y))

\* r is y itself for an integer; the value of the whole string for a string
\* of digits only; the value of the first four digits for any other value
\* that starts with four digits; null for everything else
WholeOrFourDigits(y, r) ==
    IF Is(y, "int") THEN r = y
    ELSE LET lead == LeadingDigits(y) IN
         IF Is(y, "str") /\ lead = y.str /\ lead # <<>> THEN r = PyInt(ParseInt(lead))
         ELSE IF Len(lead) >= 4 THEN r = PyInt(ParseInt(SubSeq(lead, 1, 4)))
         ELSE r = PyNone

\* the Year of the one hit of the search in flight
HitYear == DictGet(EntriesInFlight[1], "Year")

\* C14 as stated: for every Year value, the Year _normalize_detail_obj
\* returns and the year search_and_save stores is a 4-digit integer equal to
\* the leading digits of the value, or null, and nothing is raised.
C14_YearFourDigitsOrNull ==
    [][/\ (DetailStep /\ YearGiven # <<>>)
            => out'.exc = "none" /\ FourDigitsOrNull(YearGiven[1], out'.v.Year)
       /\ (SearchStep /\ Len(EntriesInFlight) = 1)
            => /\ out'.outcome = "returned"
               /\ \A m \in movies' \ movies : FourDigitsOrNull(HitYear, m.year)
      ]_vars

\* C14 amended: the Year returned and the year stored is the integer itself
\* for an integer, the value of the whole string for an all-digit string of
\* any length, the first four digits for a value that starts with four
\* digits, and null otherwise; nothing is raised.
C14_YearWholeOrFourDigits ==
    [][/\ (DetailStep /\ YearGiven # <<>>)
            => out'.exc = "none" /\ WholeOrFourDigits(YearGiven[1], out'.v.Year)
       /\ (SearchStep /\ Len(EntriesInFlight) = 1)
            => /\ out'.outcome = "returned"
               /\ \A m \in movies' \ movies : WholeOrFourDigits(HitYear, m.year)
      ]_vars

\* C14 witness: a search stored the year of a hit whose Year was the
\* six-digit string "199912"
C14_Witness ==
    /\ out.op = "search_and_save" /\ out.outcome = "returned"
    /\ \E m \in movies : m.imdb_id = ID2 /\ m.year = PyInt(199912) /\ m.title = T1

\* the steps in which _fetch_by_imdb_id runs on its own
FetchStep == inp.op = "_fetch_by_imdb_id" /\ inp' = Idle

\* the order in which section 4.3 has the candidate names probed
ClaimedOrder == <<"get_by_imdb_id", "by_id", "get_movie", "movie", "id", "lookup", "get">>

\* the calls section 4.3 has the resolver make on omdb_client from the i-th
\* candidate on: positional, then imdbid=, then id=, the next convention
\* after a wrong-arity error, the next candidate after any other exception
\* or after the third convention, and no further call once one returned
RECURSIVE ClaimedAttempts(_, _)
ClaimedAttempts(omdb_client, i) ==
    IF i > Len(ClaimedOrder) THEN <<>>
    ELSE IF ~(ClaimedOrder[i] \in DOMAIN omdb_client
              /\ "pos" \in DOMAIN omdb_client[ClaimedOrder[i]])
    THEN ClaimedAttempts(omdb_client, i + 1)
    ELSE LET name == ClaimedOrder[i]
             g == omdb_client[name]
             a1 == <<Attempt(name, "pos", g.pos)>>
             a2 == Append(a1, Attempt(name, "imdbid", g.imdbid))
             a3 == Append(a2, Attempt(name, "id", g.id))
             rest == ClaimedAttempts(omdb_client, i + 1)
         IN  IF g.pos.exc = "none" THEN a1
             ELSE IF g.pos.exc # "TypeError" THEN a1 \o rest
             ELSE IF g.imdbid.exc = "none" THEN a2
             ELSE IF g.imdbid.exc # "TypeError" THEN a2 \o rest
             ELSE IF g.id.exc = "none" THEN a3
             ELSE a3 \o rest

\* the last call of trace t returned
LastReturned(t) == t # <<>> /\ t[Len(t)].exc = "none"

\* C15: _fetch_by_imdb_id makes exactly the calls of section 4.3, in that
\* order: the candidates in the fixed order, each positionally, then with
\* imdbid=, then with id=; and the loop ends where that sequence ends, by
\* returning the result of its last call or by going on to the fallback.
C15_ProbingOrder ==
    [][FetchStep
          => /\ out'.trace = ClaimedAttempts(inp.client, 1)
             /\ out'.probed = LastReturned(out'.trace)]_vars

\* what the call `a` of a trace did on omdb_client
CallResult(omdb_client, a) == omdb_client[a.name][a.conv]

\* C16: in _fetch_by_imdb_id a candidate call that does not raise is the
\* last call made: its result, null or empty included, is what is returned
\* and no HTTP request follows; and an HTTP request is made only when every
\* candidate call made has raised (or there was none to make).
C16_FirstReturnWins ==
    [][FetchStep
          => LET t == out'.trace IN
             /\ \A k \in 1..Len(t) :
                   t[k].exc = "none"
                      => /\ k = Len(t)
                         /\ out'.exc = "none"
                         /\ out'.v = CallResult(inp.client, t[k]).v
                         /\ out'.http = 0
             /\ out'.http > 0 => \A k \in 1..Len(t) : t[k].exc # "none"]_vars

\* C16 witness: with an API key configured, get_movie(imdbid=...) returned
\* None after the positional call failed; None was returned, the later
\* candidate get was not tried and no request was made
C16_Witness ==
    /\ out.op = "_fetch_by_imdb_id" /\ out.exc = "none" /\ out.v = PyNone
    /\ Len(out.trace) = 2 /\ out.trace[2].name = "get_movie" /\ out.trace[2].exc = "none"
    /\ out.http = 0 /\ Truthy(ApiKey(settings))

\* an API key is configured under one of the three recognized names
KeyConfigured ==
    \E name \in {"OMDB_API_KEY", "OMDB_APIKEY", "OMDB_KEY"} : Truthy(settings[name])

\* the request got a 2xx response whose JSON body has Response "True"
UsableResponse(http) ==
    /\ http.kind = "ok"
    /\ Is(http.data, "dict")
    /\ "Response" \in DOMAIN http.data.dict
    /\ http.data.dict.Response = TrueStr

\* C19: when _fetch_by_imdb_id comes to the HTTP fallback it returns the
\* parsed payload exactly when an API key is configured, the request
\* succeeds with a 2xx status and the JSON has Response "True"; otherwise it
\* returns None; and without an API key it makes no request.
C19_FallbackPayload ==
    [][(FetchStep /\ ~out'.probed)
          => /\ out'.exc = "none"
             /\ IF KeyConfigured /\ UsableResponse(inp.http)
                THEN out'.v = inp.http.data
                ELSE out'.v = PyNone
             /\ out'.http = (IF KeyConfigured THEN 1 ELSE 0)]_vars

\* C19 witness: every candidate call raised, the key was found under the
\* third name, and the fallback returned the payload
C19_Witness ==
    /\ out.op = "_fetch_by_imdb_id" /\ ~out.probed /\ out.trace # <<>>
    /\ out.http = 1 /\ out.v = P_Full
    /\ settings.OMDB_API_KEY = PyStr(<<>>) /\ settings.OMDB_KEY = Key

EnvelopeKeys == <<"Search", "search", "results">>

\* the search of the call in flight answered with a mapping
MappingResponse == inp.response.exc = "none" /\ Is(inp.response.v, "dict")

\* the entries under the first of the keys that satisfies Wins, none if no
\* key does
RECURSIVE EntriesUnder(_, _, _)
EntriesUnder(mapping, Wins(_, _), i) ==
    IF i > Len(EnvelopeKeys) THEN PyList(<<>>)
    ELSE IF Wins(mapping, EnvelopeKeys[i]) THEN mapping.dict[EnvelopeKeys[i]]
    ELSE EntriesUnder(mapping, Wins, i + 1)

KeyPresent(mapping, key) == key \in DOMAIN mapping.dict

\* the key is present with a non-empty value, or it is the last key, results,
\* and present with a value other than None
KeyNonEmpty(mapping, key) ==
    /\ key \in DOMAIN mapping.dict
    /\ \/ Truthy(mapping.dict[key])
       \/ key = "results" /\ mapping.dict[key] # PyNone

\* the call in flight ends as a call whose search answered with the bare
\* value `entries` ends, and stamps the term if it returns
ProcessedAs(entries) ==
    LET p == SearchAndProcess(Ok(entries), inp.client, movies) IN
    /\ movies' = p.table
    /\ out'.saved = p.saved
    /\ out'.outcome = (IF p.exc = "none" THEN "returned" ELSE "raised")
    /\ (Is(entries, "list") /\ entries.list = <<>>)
          => movies' = movies /\ StampedNow(searchTerms', TermInFlight)

\* C17 as stated: for a mapping response search_and_save processes the
\* entries under the first of Search, search, results that is present, an
\* empty list included; with none of them present it creates no Movie and
\* stamps the term.
C17_FirstPresentKeyWins ==
    [][(SearchStep /\ NotSkipped /\ MappingResponse)
          => ProcessedAs(EntriesUnder(inp.response.v, KeyPresent, 1))]_vars

\* C17 amended: for a mapping response search_and_save processes the
\* entries under the first of Search, search, results whose value is not
\* empty; with no such key it creates no Movie and stamps the term.
C17_FirstNonEmptyKeyWins ==
    [][(SearchStep /\ NotSkipped /\ MappingResponse)
          => ProcessedAs(EntriesUnder(inp.response.v, KeyNonEmpty, 1))]_vars

\* C17 witness: the response had an empty Search list and a results list,
\* and the Movie of the results list was saved
C17_Witness ==
    /\ out.op = "search_and_save" /\ out.outcome = "returned"
    /\ out.inner_key = "results" /\ out.saved = {ID2}
    /\ \E m \in movies : m.imdb_id = ID2

\* a _normalize_search_item call for a bare string ends
TitleStep ==
    /\ inp.op = "_normalize_search_item" /\ Is(inp.item, "str")
    /\ out'.op = "_normalize_search_item"

\* the call returned a non-empty result
GaveResult(res) == res.exc = "none" /\ Truthy(res.v)

\* the call ends the resolution: it returned a non-empty result or raised
\* something other than a wrong-arity error
Final(res) == res.exc = "Error" \/ GaveResult(res)

Conventions == <<"title", "pos">>

\* the lookups as stated, from the c-th convention of the i-th name on:
\* each method the client has with title= and then positionally, a
\* wrong-arity error leading to the next convention of the same method
RECURSIVE BothConventions(_, _, _)
BothConventions(omdb_client, i, c) ==
    IF i > Len(TitleNames) THEN <<>>
    ELSE IF ~HasMethod(omdb_client, TitleNames[i])
    THEN BothConventions(omdb_client, i + 1, 1)
    ELSE LET res == omdb_client[TitleNames[i]][Conventions[c]] IN
         <<Attempt(TitleNames[i], Conventions[c], res)>>
         \o (IF Final(res) THEN <<>>
             ELSE IF res.exc = "TypeError" /\ c < Len(Conventions)
             THEN BothConventions(omdb_client, i, c + 1)
             ELSE BothConventions(omdb_client, i + 1, 1))

\* the lookups with one convention a name: get with title=, the other names
\* positionally, a wrong-arity error leading to the next name
RECURSIVE OneConvention(_, _)
OneConvention(omdb_client, i) ==
    IF i > Len(TitleNames) THEN <<>>
    ELSE IF ~HasMethod(omdb_client, TitleNames[i])
    THEN OneConvention(omdb_client, i + 1)
    ELSE LET conv == IF i = 1 THEN "title" ELSE "pos"
             res == omdb_client[TitleNames[i]][conv]
         IN  <<Attempt(TitleNames[i], conv, res)>>
             \o (IF Final(res) THEN <<>> ELSE OneConvention(omdb_client, i + 1))

\* the item resolved from the result res: its normalized Title, Year and
\* imdbID with the Type read off res, and the bare title if normalizing
\* res or reading its Type raises
Merged(item, res) ==
    LET det == _normalize_detail_obj(res)
        type == ResultType(res)
    IN  IF det.exc # "none" \/ type.exc # "none"
        THEN SearchItem(item, PyNone, PyNone, PyNone)
        ELSE SearchItem(PyOr(det.v.Title, item), det.v.Year, det.v.imdbID, type.v)

\* the call made exactly the lookups t and returned, without raising, the
\* item merged from the last lookup's non-empty result, or the bare title
\* if the last lookup gave none
ResolvedBy(t) ==
    /\ out'.exc = "none"
    /\ out'.trace = t
    /\ out'.data =
          (IF t # <<>> /\ GaveResult(CallResult(inp.client, t[Len(t)]))
           THEN Merged(inp.item, CallResult(inp.client, t[Len(t)]).v)
           ELSE SearchItem(inp.item, PyNone, PyNone, PyNone))

\* C18 as stated: a bare string is resolved by get, get_by_title, title,
\* by_title in that order, each with the keyword and then the positional
\* convention, a wrong-arity error leading to the next convention of the
\* same method; the first non-empty result is normalized and returned with
\* its Type, any other exception ends the resolution without propagating,
\* and with no result the bare title is returned.
C18_EachMethodBothConventions ==
    [][TitleStep => ResolvedBy(BothConventions(inp.client, 1, 1))]_vars

\* C18 amended: a bare string is resolved by get called with title= only
\* and get_by_title, title, by_title called positionally only, in that
\* order, a wrong-arity error leading to the next method; the first
\* non-empty result is normalized and returned with its Type, any other
\* exception, one raised while normalizing included, ends the resolution
\* without propagating, and with no result the bare title is returned.
C18_OneConventionEachMethod ==
    [][TitleStep => ResolvedBy(OneConvention(inp.client, 1))]_vars

\* C18 witness: get refused title= with a wrong-arity error, the next
\* lookup was by_title, called positionally, and its result was returned
C18_Witness ==
    /\ out.op = "_normalize_search_item" /\ Is(out.item, "str")
    /\ Len(out.trace) = 2
    /\ out.trace[1] = Attempt("get", "title", TE)
    /\ out.trace[2].name = "by_title" /\ out.trace[2].conv = "pos"
    /\ out.trace[2].exc = "none"
    /\ out.data.imdbID # PyNone

\* C20: while two search_and_save calls run in parallel, whatever their
\* interleaving, the Movie table holds at most one row per imdb_id.
C20_ParallelOneMoviePerId ==
    inp.op = "parallel"
        => \A a, b \in movies : a.imdb_id = b.imdb_id => a = b

\* C20 witness: with no override configured, two calls for the same term
\* have both passed the Cache Guard and called the upstream search, neither
\* has stamped the term yet, and both have given the same identifier to
\* get_or_create
C20_Witness ==
    /\ inp.op = "parallel"
    /\ ~(settings.OMDB_ALLOW_RESCRAPE \/ settings.DEBUG)
    /\ NormalizeTerm(inp.procs[1].search) = NormalizeTerm(inp.procs[2].search)
    /\ \A p \in Procs : /\ inp.procs[p].searched /\ ~inp.procs[p].stamped
                         /\ inp.procs[p].pc = "stamp"
                         /\ inp.procs[p].saved = {ID1}
    /\ Cardinality({m \in movies : m.imdb_id = ID1}) = 1

=============================================================================
